---- MODULE Spec2Model ----
(***************************************************************************)
(* A model of lib/generate_db.py: the driver that loads the output of a    *)
(* trained topic model (gamma, beta, vocabulary, titles, word counts) and  *)
(* writes nine tables through one sqlite3 connection.                      *)
(*                                                                         *)
(* Ids are 0-based as in the source; TLA+ sequences are 1-based, so the    *)
(* entity with id i is element i+1 of its file.  Floats are modelled as    *)
(* fixed-point integers with Unit units per 1.0; a square root is taken in *)
(* units of 1/Root (Root * Root = Unit), so squares of differences of      *)
(* roots are again in units of 1/Unit.                                     *)
(***************************************************************************)
EXTENDS Integers, Sequences, FiniteSets, TLC

VARIABLES
    vocab_file,          \* sys.argv[5]: one term per line
    doc_file,            \* sys.argv[6]: one title per line
    gamma_file,          \* sys.argv[4]: one row of topic weights per document
    beta_file,           \* sys.argv[3]: one row of term weights per topic
    doc_wordcount_file,  \* sys.argv[2]: per document, a sequence of tokens
    pc,                  \* the statement of __main__ that runs next
    vocab,               \* the module-level list `vocab`
    db,                  \* table name -> rows inserted, in insertion order
    indexes,             \* names of the indexes created
    log,                 \* statements sent to the connection, in order
    con_open,            \* the sqlite3 connection is open
    open_files           \* file handles opened by open()/file(), not closed

vars == <<vocab_file, doc_file, gamma_file, beta_file, doc_wordcount_file,
          pc, vocab, db, indexes, log, con_open, open_files>>

files == <<vocab_file, doc_file, gamma_file, beta_file, doc_wordcount_file>>

-----------------------------------------------------------------------------
(* Bounds of the model *)

MaxDocs == 2

MaxTopics == 2

MaxVocab == 4

MaxGamma == 2

MaxTokens == 2

MaxCount == 2

(* Program constants *)

\* [:100] in write_doc_doc and write_term_term
TopK == 100

\* vocab[index[0]], vocab[index[1]], vocab[index[2]] in write_topics
TitleTerms == 3

\* gamma.sum(axis=1) needs a 2-d array: np.loadtxt squeezes a file with one
\* row or one column to fewer dimensions
MinMatrixDim == 2

\* np.inf, above every finite fixed-point score of the model
Inf == 1000000000

\* fixed-point representation of floats
Root == 10 * 10

Unit == Root * Root

-----------------------------------------------------------------------------
(* Sequences *)

Range(s) == {s[i] : i \in DOMAIN s}

RECURSIVE SumSeq(_)
SumSeq(s) == IF s = <<>> THEN 0 ELSE Head(s) + SumSeq(Tail(s))

\* s[:k]
Take(s, k) == SubSeq(s, 1, IF Len(s) < k THEN Len(s) ELSE k)

\* s[a:], a 0-based
Slice(s, a) == SubSeq(s, a + 1, Len(s))

\* s[::-1]
Reverse(s) == [i \in 1..Len(s) |-> s[Len(s) + 1 - i]]

\* (x,) * n
Repeat(x, n) == [i \in 1..n |-> x]

\* range(n)
range(n) == [i \in 1..n |-> i - 1]

Min2(a, b) == IF a < b THEN a ELSE b

\* zip(a, b, c) stops at the shortest argument
generic_generator(a, b, c) ==
    [i \in 1..Min2(Len(a), Min2(Len(b), Len(c))) |-> <<a[i], b[i], c[i]>>]

\* numpy.argsort of a short 1-d array: 0-based indices in ascending order of
\* value; arrays this short are insertion-sorted, so equal values keep their
\* index order
argsort(s) ==
    LET before(i, j) == s[i] < s[j] \/ (s[i] = s[j] /\ i < j)
        rank(i) == Cardinality({j \in DOMAIN s : before(j, i)})
    IN  [k \in 1..Len(s) |-> (CHOOSE i \in DOMAIN s : rank(i) = k - 1) - 1]

\* a[idx] for an array of 0-based indices idx
TakeAt(a, idx) == [k \in 1..Len(idx) |-> a[idx[k] + 1]]

Abs(x) == IF x < 0 THEN -x ELSE x

-----------------------------------------------------------------------------
(* Fixed-point arithmetic *)

\* the integer square root: the largest r with r * r <= x
RECURSIVE Isqrt(_)
Isqrt(x) ==
    IF x < 2 THEN x
    ELSE LET small == 2 * Isqrt(x \div 4)
         IN  IF (small + 1) * (small + 1) > x THEN small ELSE small + 1

\* x ** .5 for x in units of 1/Unit, result in units of 1/Root
Sqrt(x) == Isqrt(x)

\* float(x) of an integer literal
Float(x) == x * Unit

\* np.exp(x) of an integer x, in units of 1/Unit
RECURSIVE Exp(_)
Exp(x) ==
    IF x = 0 THEN Unit
    ELSE IF x > 0 THEN (Exp(x - 1) * 2718) \div 1000
    ELSE (Unit * Unit) \div Exp(-x)

-----------------------------------------------------------------------------
(* Score functions *)

\* np.sum((doca**.5 - docb**.5)**2, axis=1): one score per row of docb
hellinger_distance(doca, docb) ==
    [r \in 1..Len(docb) |->
        SumSeq([j \in 1..Len(doca) |->
            (Sqrt(doca[j]) - Sqrt(docb[r][j])) * (Sqrt(doca[j]) - Sqrt(docb[r][j]))])]

\* 0.5 * np.sum((|a|**.5 - |b|**.5)**2, axis=1) / (100. * len(a))
get_topic_score(topica, topicb) ==
    [r \in 1..Len(topicb) |->
        SumSeq([j \in 1..Len(topica) |->
            (Sqrt(Abs(topica[j])) - Sqrt(Abs(topicb[r][j])))
            * (Sqrt(Abs(topica[j])) - Sqrt(Abs(topicb[r][j])))])
        \div (2 * 100 * Len(topica))]

\* np.sum((terma - termb)**2, axis=1); the rows hold roots, in units of 1/Root
get_term_score(terma, termb) ==
    [r \in 1..Len(termb) |->
        SumSeq([j \in 1..Len(terma) |->
            (terma[j] - termb[r][j]) * (terma[j] - termb[r][j])])]

\* score[score == 0] = np.inf
drop_zeros(score) == [k \in 1..Len(score) |-> IF score[k] = 0 THEN Inf ELSE score[k]]

-----------------------------------------------------------------------------
(* The connection *)

Stmt(op, table) == <<op, table>>

Commit == <<"COMMIT", "">>

\* create_relation with the commit after the DDL left out
create_relation_uncommitted(table) ==
    <<Stmt("CREATE TABLE", table), Stmt("CREATE INDEX", table),
      Stmt("CREATE INDEX", table)>>

\* cur.execute('CREATE TABLE ...'); con.commit() of the two entity writers
\* that carry no index
create_entity(table) == <<Stmt("CREATE TABLE", table), Commit>>

\* CREATE TABLE, CREATE INDEX idx1, CREATE INDEX idx2, con.commit()
create_relation(table) ==
    <<Stmt("CREATE TABLE", table), Stmt("CREATE INDEX", table),
      Stmt("CREATE INDEX", table), Commit>>

relation_indexes(table) == {<<table, "idx1">>, <<table, "idx2">>}

\* one INSERT statement per execute/executemany call
inserts(table, n) == Repeat(Stmt("INSERT", table), n)

RECURSIVE Flatten(_)
Flatten(ss) == IF ss = <<>> THEN <<>> ELSE Head(ss) \o Flatten(Tail(ss))

-----------------------------------------------------------------------------
(* Input files *)

TermNames == <<"a", "b", "c", "d", "e", "f">>

DocNames == <<"d0", "d1", "d2", "d3">>

VocabFile(V) == SubSeq(TermNames, 1, V)

DocFile(N) == SubSeq(DocNames, 1, N)

\* gamma files of N documents over T topics: every weight is low (1) or
\* high (MaxGamma)
GammaFiles(N, T) == [1..N -> [1..T -> {1, MaxGamma}]]

DefaultGamma(N, T) ==
    [i \in 1..N |-> [j \in 1..T |-> IF i = j THEN MaxGamma ELSE 1]]

\* a topic row of log-weights over V terms: every assignment of the pairwise
\* distinct weights -(V-1)..0, and the uniform row
BetaRows(V) ==
    {r \in [1..V -> (1 - V)..0] : \A i, j \in 1..V : i # j => r[i] # r[j]}
    \cup {[j \in 1..V |-> 0]}

DefaultBeta(T, V) == [t \in 1..T |-> [j \in 1..V |-> -((j + t) % V)]]

\* beta files of T topics over V terms: the default file with one row replaced
BetaFiles(T, V) ==
    {[DefaultBeta(T, V) EXCEPT ![t] = r] : t \in 1..T, r \in BetaRows(V)}

\* a token is the list of integers between its colons: "3:2" is <<3, 2>>
\* and a lone count "2" is <<2>>
PairTokens(V) == {<<id, c>> : id \in 0..V, c \in {1, MaxCount}}

\* the first token of a line: the number of pairs that follow (lda-c), or a
\* token that itself looks like a pair
FirstTokenStyles == {"count", "pair"}

FirstToken(style, n) == IF style = "count" THEN <<n>> ELSE <<0, MaxCount>>

\* the lines of N documents holding at most `budget` pairs in all
RECURSIVE WordcountLines(_, _, _, _)
WordcountLines(N, V, style, budget) ==
    IF N = 0 THEN {<<>>}
    ELSE UNION {
            {<<<<FirstToken(style, k)>> \o pairs>> \o rest :
                pairs \in [1..k -> PairTokens(V)],
                rest \in WordcountLines(N - 1, V, style, budget - k)}
            : k \in 0..budget}

WordcountFiles(N, V) ==
    UNION {WordcountLines(N, V, style, MaxTokens) : style \in FirstTokenStyles}

DefaultWordcount(N, V) ==
    [d \in 1..N |-> <<FirstToken("count", 1), <<(d - 1) % V, 1>>>>]

-----------------------------------------------------------------------------
(* __main__ *)

\* The state when the script starts, past its argument check: nothing is open
\* and the store is empty.  The five files describe one corpus of n documents,
\* t topics and v terms; the corpora are the default corpus of every shape
\* with its gamma file, its beta file or its word-count file varied.
Init ==
    /\ \E n \in 1..MaxDocs, t \in 1..MaxTopics, v \in 1..MaxVocab :
         /\ vocab_file = VocabFile(v)
         /\ doc_file = DocFile(n)
         /\ \/ /\ v = MaxVocab
               /\ gamma_file \in GammaFiles(n, t)
               /\ beta_file = DefaultBeta(t, v)
               /\ doc_wordcount_file = DefaultWordcount(n, v)
            \/ /\ n = MinMatrixDim /\ t = MinMatrixDim
               /\ gamma_file = DefaultGamma(n, t)
               /\ beta_file \in BetaFiles(t, v)
               /\ doc_wordcount_file = DefaultWordcount(n, v)
            \/ /\ n = MinMatrixDim /\ t = MinMatrixDim /\ v = TitleTerms
               /\ gamma_file = DefaultGamma(n, t)
               /\ beta_file = DefaultBeta(t, v)
               /\ doc_wordcount_file \in WordcountFiles(n, v)
    /\ pc = "connect"
    /\ vocab = <<>>
    /\ db = <<>>
    /\ indexes = {}
    /\ log = <<>>
    /\ con_open = FALSE
    /\ open_files = {}

\* con = sqlite3.connect(filename); cur = con.cursor();
\* vocab = open(vocab_file, 'r').readlines(), stripped
main ==
    /\ pc = "connect"
    /\ con_open' = TRUE
    /\ open_files' = open_files \cup {<<"main", "vocab_file">>}
    /\ vocab' = vocab_file
    /\ pc' = "write_terms"
    /\ UNCHANGED <<files, db, indexes, log>>

\* One action per writer: the DDL, its commit, one executemany (or execute)
\* per pass of the loop, and the final commit.  A writer that raises leaves
\* the statements sent so far and ends the run (pc = "failed"); nothing in
\* the script catches an exception or closes a handle.
write_terms ==
    /\ pc = "write_terms"
    /\ open_files' = open_files \cup {<<"write_terms", "terms_file">>}
    /\ db' = db @@ ("terms" :> vocab_file)
    /\ log' = log \o create_entity("terms") \o inserts("terms", 1) \o <<Commit>>
    /\ pc' = "write_docs"
    /\ UNCHANGED <<files, vocab, indexes, con_open>>

write_docs ==
    /\ pc = "write_docs"
    /\ open_files' = open_files \cup {<<"write_docs", "docs_file">>}
    /\ db' = db @@ ("docs" :> doc_file)
    /\ log' = log \o create_entity("docs") \o inserts("docs", 1) \o <<Commit>>
    /\ pc' = "write_doc_doc"
    /\ UNCHANGED <<files, vocab, indexes, con_open>>

\* np.loadtxt(gamma_file) followed by gamma.sum(axis=1, keepdims=True): the
\* sum over axis 1 raises unless the file has at least two rows and two columns
loadtxt_is_2d(file) ==
    /\ Len(file) >= MinMatrixDim
    /\ Len(file[1]) >= MinMatrixDim

\* theta = gamma / gamma.sum(axis=1, keepdims=True)
normalize(gamma) ==
    [i \in 1..Len(gamma) |->
        [j \in 1..Len(gamma[i]) |-> Float(gamma[i][j]) \div SumSeq(gamma[i])]]

\* the rows of one pass of the loop of write_doc_doc, for reference a
doc_doc_rows(theta, a) ==
    LET doc == theta[a + 1]
        distance == drop_zeros(hellinger_distance(doc, Slice(theta, a)))
        min_doc_idx == Take(argsort(distance), TopK)
    IN  generic_generator(Repeat(a, TopK), min_doc_idx, TakeAt(distance, min_doc_idx))

write_doc_doc ==
    /\ pc = "write_doc_doc"
    /\ indexes' = indexes \cup relation_indexes("doc_doc")
    /\ IF loadtxt_is_2d(gamma_file)
       THEN LET theta == normalize(gamma_file)
                res == [a \in 1..Len(theta) |-> doc_doc_rows(theta, a - 1)]
            IN  /\ db' = db @@ ("doc_doc" :> Flatten(res))
                /\ log' = log \o create_relation("doc_doc")
                              \o inserts("doc_doc", Len(theta)) \o <<Commit>>
                /\ pc' = "write_doc_topic"
       ELSE /\ db' = db @@ ("doc_doc" :> <<>>)
            /\ log' = log \o create_relation("doc_doc")
            /\ pc' = "failed"
    /\ UNCHANGED <<files, vocab, con_open, open_files>>

\* the rows of one line of the gamma file
doc_topic_rows(doc_no, line) ==
    LET doc == [k \in 1..Len(line) |-> Float(line[k])]
    IN  generic_generator(Repeat(doc_no, Len(doc)), range(Len(doc)), doc)

write_doc_topic ==
    /\ pc = "write_doc_topic"
    /\ indexes' = indexes \cup relation_indexes("doc_topic")
    /\ open_files' = open_files \cup {<<"write_doc_topic", "gamma_file">>}
    /\ LET res == [d \in 1..Len(gamma_file) |-> doc_topic_rows(d - 1, gamma_file[d])]
       IN  /\ db' = db @@ ("doc_topic" :> Flatten(res))
           /\ log' = log \o create_relation("doc_topic")
                         \o inserts("doc_topic", Len(gamma_file)) \o <<Commit>>
    /\ pc' = "write_topics"
    /\ UNCHANGED <<files, vocab, con_open>>

\* reverse_argsort with the [::-1] left out
plain_argsort(topic) == argsort(topic)

\* argsort(topic)[::-1]
reverse_argsort(topic) == Reverse(argsort(topic))

\* index[0], index[1], index[2] and the three vocab lookups succeed
can_title(voc, topic) ==
    /\ Len(topic) >= TitleTerms
    /\ \A k \in 1..TitleTerms : reverse_argsort(topic)[k] < Len(voc)

\* "{%s, %s, %s}" % (vocab[index[0]], vocab[index[1]], vocab[index[2]])
topic_title(voc, topic) ==
    LET index == reverse_argsort(topic)
    IN  [k \in 1..TitleTerms |-> voc[index[k] + 1]]

\* the number of leading rows of the beta file that write_topics inserts
\* before a row raises IndexError (all of them when none does)
titled_rows(voc, beta) ==
    LET bad == {t \in 1..Len(beta) : ~can_title(voc, beta[t])}
    IN  IF bad = {} THEN Len(beta)
        ELSE (CHOOSE t \in bad : \A u \in bad : t <= u) - 1

write_topics ==
    /\ pc = "write_topics"
    /\ open_files' = open_files \cup {<<"write_topics", "filename">>,
                                      <<"write_topics", "beta_file">>}
    /\ LET n == titled_rows(vocab, beta_file)
           titles == [t \in 1..n |-> topic_title(vocab, beta_file[t])]
       IN  /\ db' = db @@ ("topics" :> titles)
           /\ IF n = Len(beta_file)
              THEN /\ log' = log \o create_entity("topics")
                                 \o inserts("topics", n) \o <<Commit>>
                   /\ pc' = "write_topic_term"
              ELSE /\ log' = log \o create_entity("topics") \o inserts("topics", n)
                   /\ pc' = "failed"
    /\ UNCHANGED <<files, vocab, indexes, con_open>>

\* the rows of one line of the beta file
topic_term_rows(topic_no, line) ==
    LET topic == [k \in 1..Len(line) |-> Float(line[k])]
        index == reverse_argsort(topic)
    IN  generic_generator(Repeat(topic_no, Len(topic)), index, TakeAt(topic, index))

write_topic_term ==
    /\ pc = "write_topic_term"
    /\ indexes' = indexes \cup relation_indexes("topic_term")
    /\ open_files' = open_files \cup {<<"write_topic_term", "filename">>,
                                      <<"write_topic_term", "beta_file">>}
    /\ LET res == [t \in 1..Len(beta_file) |-> topic_term_rows(t - 1, beta_file[t])]
       IN  /\ db' = db @@ ("topic_term" :> Flatten(res))
           /\ log' = log \o create_relation("topic_term")
                         \o inserts("topic_term", Len(beta_file)) \o <<Commit>>
    /\ pc' = "write_topic_topic"
    /\ UNCHANGED <<files, vocab, con_open>>

\* topics = np.asarray([map(float, line.split()) for each line])
asarray(file) == [t \in 1..Len(file) |-> [j \in 1..Len(file[t]) |-> Float(file[t][j])]]

\* the rows of one pass of the loop of write_topic_topic
topic_topic_rows(topics, topica_count) ==
    LET topic == topics[topica_count + 1]
        scores == get_topic_score(topic, Slice(topics, topica_count))
    IN  generic_generator(Repeat(topica_count, Len(scores)), range(Len(scores)), scores)

write_topic_topic ==
    /\ pc = "write_topic_topic"
    /\ indexes' = indexes \cup relation_indexes("topic_topic")
    /\ open_files' = open_files \cup {<<"write_topic_topic", "beta_file">>}
    /\ LET topics == asarray(beta_file)
           res == [a \in 1..Len(topics) |-> topic_topic_rows(topics, a - 1)]
       IN  /\ db' = db @@ ("topic_topic" :> Flatten(res))
           /\ log' = log \o create_relation("topic_topic")
                         \o inserts("topic_topic", Len(topics)) \o <<Commit>>
    /\ pc' = "write_term_term"
    /\ UNCHANGED <<files, vocab, con_open>>

\* v = np.exp(v)**.5, one row per line of the beta file
exp_root(file) == [t \in 1..Len(file) |-> [j \in 1..Len(file[t]) |-> Sqrt(Exp(file[t][j]))]]

\* the values of `a` in `for a in range(len(v))`
term_term_references(v) == range(Len(v))

\* the rows of one pass of the loop of write_term_term
term_term_rows(v, a) ==
    LET terma == v[a + 1]
        score == drop_zeros(get_term_score(terma, Slice(v, a)))
        min_score_idx == Take(argsort(score), TopK)
    IN  generic_generator(Repeat(a, Len(score)), min_score_idx,
                          TakeAt(score, min_score_idx))

write_term_term ==
    /\ pc = "write_term_term"
    /\ indexes' = indexes \cup relation_indexes("term_term")
    /\ open_files' = open_files \cup {<<"write_term_term", "beta_file">>}
    /\ LET v == exp_root(beta_file)
           refs == term_term_references(v)
           res == [k \in 1..Len(refs) |-> term_term_rows(v, refs[k])]
       IN  /\ db' = db @@ ("term_term" :> Flatten(res))
           /\ log' = log \o create_relation("term_term")
                         \o inserts("term_term", Len(refs)) \o <<Commit>>
    /\ pc' = "write_doc_term"
    /\ UNCHANGED <<files, vocab, con_open>>

\* dict_set with the two fields of the token taken the other way round
dict_set_swapped(terms, term) ==
    [id \in DOMAIN terms \cup {term[2]} |-> IF id = term[2] THEN term[1] ELSE terms[id]]

\* terms[int(term.split(':')[0])] = int(term.split(':')[1])
dict_set(terms, term) ==
    [id \in DOMAIN terms \cup {term[1]} |-> IF id = term[1] THEN term[2] ELSE terms[id]]

\* terms = {}; for term in doc: terms[...] = ...
RECURSIVE parse_terms(_)
parse_terms(doc) ==
    IF doc = <<>> THEN <<>>
    ELSE dict_set(parse_terms(SubSeq(doc, 1, Len(doc) - 1)), doc[Len(doc)])

\* terms.keys(): a dict of a few small integers lists them in ascending order
RECURSIVE dict_keys(_)
dict_keys(S) ==
    IF S = {} THEN <<>>
    ELSE LET m == CHOOSE x \in S : \A y \in S : x <= y
         IN  <<m>> \o dict_keys(S \ {m})

\* the rows of one line of the word-count file; no_words is not consulted
doc_term_rows(doc_no, line, no_words) ==
    LET doc == Tail(line)
        terms == parse_terms(doc)
        keys == dict_keys(DOMAIN terms)
    IN  generic_generator(Repeat(doc_no, Len(keys)), keys,
                          [k \in 1..Len(keys) |-> terms[keys[k]]])

write_doc_term ==
    /\ pc = "write_doc_term"
    /\ indexes' = indexes \cup relation_indexes("doc_term")
    /\ open_files' = open_files \cup {<<"write_doc_term", "wordcount_file">>}
    /\ LET res == [d \in 1..Len(doc_wordcount_file) |->
                      doc_term_rows(d - 1, doc_wordcount_file[d], Len(vocab))]
       IN  /\ db' = db @@ ("doc_term" :> Flatten(res))
           /\ log' = log \o create_relation("doc_term")
                         \o inserts("doc_term", Len(doc_wordcount_file)) \o <<Commit>>
    /\ pc' = "done"
    /\ UNCHANGED <<files, vocab, con_open>>

Next ==
    \/ main
    \/ write_terms
    \/ write_docs
    \/ write_doc_doc
    \/ write_doc_topic
    \/ write_topics
    \/ write_topic_term
    \/ write_topic_topic
    \/ write_term_term
    \/ write_doc_term

Spec == Init /\ [][Next]_vars

-----------------------------------------------------------------------------
(* Reading the state *)

EntityTables == {"terms", "docs", "topics"}

RelationTables ==
    {"doc_doc", "doc_topic", "doc_term", "topic_term", "topic_topic", "term_term"}

SymmetricTables == {"doc_doc", "topic_topic", "term_term"}

\* the entity tables the two columns of a relation refer to
EntityA(t) ==
    IF t \in {"doc_doc", "doc_topic", "doc_term"} THEN "docs"
    ELSE IF t \in {"topic_term", "topic_topic"} THEN "topics"
    ELSE "terms"

EntityB(t) ==
    IF t = "doc_doc" THEN "docs"
    ELSE IF t \in {"doc_topic", "topic_topic"} THEN "topics"
    ELSE "terms"

Rows(t) == IF t \in DOMAIN db THEN Range(db[t]) ELSE {}

\* ids of the rows of an entity table, an id being the 0-based row index
Ids(t) == IF t \in DOMAIN db THEN 0..(Len(db[t]) - 1) ELSE {}

Terminal == pc \in {"done", "failed"}

\* the statements of the log scanned against the order
\*   CREATE TABLE t, CREATE INDEX t *, COMMIT, INSERT t *, COMMIT
\* one table after the other; the result is the phase reached, or "bad"
RECURSIVE ScanLog(_, _, _, _)
ScanLog(l, phase, cur, closed) ==
    IF l = <<>> THEN phase
    ELSE LET op == Head(l)[1]
             t == Head(l)[2]
         IN  IF op = "CREATE TABLE" /\ phase = "idle" /\ t \notin closed
             THEN ScanLog(Tail(l), "ddl", t, closed)
             ELSE IF op = "CREATE INDEX" /\ phase = "ddl" /\ t = cur
                     /\ t \in RelationTables
             THEN ScanLog(Tail(l), "ddl", cur, closed)
             ELSE IF op = "COMMIT" /\ phase = "ddl"
             THEN ScanLog(Tail(l), "dml", cur, closed)
             ELSE IF op = "INSERT" /\ phase = "dml" /\ t = cur
             THEN ScanLog(Tail(l), "dml", cur, closed)
             ELSE IF op = "COMMIT" /\ phase = "dml"
             THEN ScanLog(Tail(l), "idle", cur, closed \cup {cur})
             ELSE "bad"

Created == {log[i][2] : i \in {k \in DOMAIN log : log[k][1] = "CREATE TABLE"}}

DistinctWeights(row) == \A i, j \in DOMAIN row : i # j => row[i] # row[j]

\* term ids named by the pairs of a word-count line
PairIds(line) == {line[k][1] : k \in 2..Len(line)}

-----------------------------------------------------------------------------
(* Claims *)

\* C1: every row (entity_a, entity_b, score) of doc_doc, topic_topic and
\* term_term has entity_b >= entity_a.
C1_UpperTriangle ==
    \A t \in SymmetricTables : \A row \in Rows(t) : row[2] >= row[1]

\* C2: no row of doc_doc, topic_topic or term_term has entity_a = entity_b.
C2_NoSelfPairs ==
    \A t \in SymmetricTables : \A row \in Rows(t) : row[1] # row[2]

\* C3: once write_term_term has run, it has made one pass (one INSERT call)
\* per term of the vocabulary, and the references stored as term_a are
\* exactly the term ids 0..V-1.
C3_TermTermOverTerms ==
    pc \in {"write_doc_term", "done"} =>
        /\ Cardinality({k \in DOMAIN log : log[k] = Stmt("INSERT", "term_term")})
             = Len(vocab_file)
        /\ {row[1] : row \in Rows("term_term")} = 0..(Len(vocab_file) - 1)

\* C4: in every state, both ids of every row of a relation table are ids of
\* rows already in the entity tables the relation refers to.
C4_ReferencesInserted ==
    \A t \in RelationTables : \A row \in Rows(t) :
        row[1] \in Ids(EntityA(t)) /\ row[2] \in Ids(EntityB(t))

\* C5: doc_doc holds no row of a candidate at Hellinger distance zero from its
\* reference: no row carries the score zero or the infinite sentinel that
\* write_doc_doc puts in its place.
C5_NoZeroDistanceRows ==
    \A row \in Rows("doc_doc") : row[3] # 0 /\ row[3] # Inf

\* C6: after the run, for every word-count line d whose pairs name pairwise
\* distinct term ids, the doc_term rows with doc = d are exactly one row
\* (d, term_id, count) per pair after the first token.
C6_DocTermRows ==
    pc = "done" =>
        \A d \in DOMAIN doc_wordcount_file :
            LET line == doc_wordcount_file[d]
                OfDoc(row) == row[1] = d - 1
                rows_d == SelectSeq(db["doc_term"], OfDoc)
            IN  Cardinality(PairIds(line)) = Len(line) - 1 =>
                    /\ Len(rows_d) = Len(line) - 1
                    /\ \A k \in 2..Len(line) :
                           <<d - 1, line[k][1], line[k][2]>> \in Range(rows_d)

C6_Witness ==
    /\ pc = "done"
    /\ \E d \in DOMAIN doc_wordcount_file :
         LET line == doc_wordcount_file[d]
         IN  /\ d > 1
             /\ Len(line) = 3
             /\ Len(line[1]) = 2
             /\ line[2][1] # line[3][1]
             /\ line[2][2] # line[3][2]
             /\ <<d - 1, line[3][1], line[3][2]>> \in Rows("doc_term")

\* C7: once write_topics has completed, topics holds one title per row of the
\* beta file, in row order, and the title of a row with pairwise distinct
\* weights lists the three highest-weight terms in descending-weight order.
C7_TopicTitles ==
    ("topics" \in DOMAIN db /\ pc # "failed") =>
        /\ Len(db["topics"]) = Len(beta_file)
        /\ \A t \in DOMAIN beta_file :
             LET w == beta_file[t]
             IN  (DistinctWeights(w) /\ Len(vocab_file) >= TitleTerms) =>
                     \E i1, i2, i3 \in DOMAIN w :
                         /\ db["topics"][t]
                              = <<vocab_file[i1], vocab_file[i2], vocab_file[i3]>>
                         /\ w[i1] > w[i2] /\ w[i2] > w[i3]
                         /\ \A m \in DOMAIN w \ {i1, i2, i3} : w[m] < w[i3]

C7_Witness ==
    /\ "topics" \in DOMAIN db /\ pc # "failed"
    /\ Len(vocab_file) > TitleTerms
    /\ \E t \in DOMAIN beta_file :
         /\ t > 1
         /\ DistinctWeights(beta_file[t])
         /\ beta_file[t][1] < beta_file[t][2]
         /\ beta_file[t][2] < beta_file[t][Len(vocab_file)]
         /\ db["topics"][t][1] = vocab_file[Len(vocab_file)]

\* C8: a word-count file with a term id outside 0..V-1 never lets the run
\* complete, and no doc_term row carries a term id outside 0..V-1.
C8_OutOfRangeFails ==
    (\E d \in DOMAIN doc_wordcount_file :
        \E id \in PairIds(doc_wordcount_file[d]) : id \notin 0..(Len(vocab_file) - 1))
    => /\ pc # "done"
       /\ \A row \in Rows("doc_term") : row[2] \in 0..(Len(vocab_file) - 1)

\* C9: the statements of every run follow, table after table, the order
\* CREATE TABLE, its CREATE INDEX statements (relation tables only), commit,
\* its INSERTs, commit, with no statement on another table in between; every
\* step that returns has committed, and a run that completes has done so for
\* all nine tables.
C9_StatementOrder ==
    /\ ScanLog(log, "idle", "", {}) # "bad"
    /\ pc # "failed" => ScanLog(log, "idle", "", {}) = "idle"
    /\ pc = "done" => Created = EntityTables \cup RelationTables

C9_Witness ==
    /\ pc = "done"
    /\ Cardinality({k \in DOMAIN log : log[k][1] = "INSERT"}) > Cardinality(Created)
    /\ Cardinality({k \in DOMAIN log : log[k][1] = "CREATE INDEX"}) = 12

\* C10: in every terminal state of a run, normal or failed, the connection is
\* closed and no file handle opened by a writer step is still open.
C10_ReleasedAtExit ==
    Terminal => ~con_open /\ open_files = {}

====
